---- MODULE Spec2Model ----
(***************************************************************************)
(* Dexcom token lifecycle and data-synchronisation core of the glucose     *)
(* dashboard's Cloud Functions (functions/src/index.ts, here               *)
(* src/unnamed/part_000).                                                  *)
(*                                                                         *)
(* Persistent state is the three Firestore collections the functions use   *)
(* (rateLimits/global, dexcomTokens, glucoseReadings) plus the vendor's    *)
(* own view of each user's grant.  Every Cloud Function invocation is a    *)
(* task; a task suspends at every await, so each await of the source is    *)
(* one action and tasks interleave freely between them.  The synchronous   *)
(* code that runs when an await resumes belongs to the action that         *)
(* resumes it.                                                             *)
(*                                                                         *)
(* Time is counted in ticks of 30 minutes with tick 0 = 2024-01-01T00:00Z. *)
(* The rate window and the ceiling are scaled down and are bounds of the   *)
(* model.                                                                  *)
(***************************************************************************)
EXTENDS Integers, Sequences, FiniteSets, TLC

\* ------------------------------------------------------------------ bounds
\* DEXCOM_API_CONFIG.RATE_LIMIT_MAX_CALLS (60000 in the source), scaled.
RATE_LIMIT_MAX_CALLS == 2
\* DEXCOM_API_CONFIG.RATE_LIMIT_WINDOW_MS (one hour in the source), scaled.
RATE_LIMIT_WINDOW_MS == 3
\* The clock stops advancing here.
MaxTime == 3
\* checkRateLimit calls made in one behaviour of the limiter harness.
MaxCalls == 4
\* Token pairs the vendor issues to one user in one behaviour.
MaxGen == 3

\* ------------------------------------------------------- program constants
\* DEXCOM_API_CONFIG.TOKEN_EXPIRY_BUFFER_MS: 30 minutes.
TOKEN_EXPIRY_BUFFER_MS == 1
\* expires_in of the vendor's token response: one hour.
EXPIRES_IN == 2

\* context.auth.uid of the callers.
Users == {"u1", "u2"}
\* Interactive invocations (onCall / onRequest) of one behaviour.
Slots == {"t1", "t2"}
\* The sweep's promise for the document of user u is task u.
Tasks == Slots \cup Users

Max(a, b) == IF a >= b THEN a ELSE b
Min(a, b) == IF a <= b THEN a ELSE b

None == << >>
Some(x) == <<x>>

\* f with f[k] = v, k added to the domain when missing (doc(k).set(v)).
Put(f, k, v) == [x \in DOMAIN f \cup {k} |-> IF x = k THEN v ELSE f[x]]
\* f without k (doc(k).delete()).
Drop(f, k) == [x \in DOMAIN f \ {k} |-> f[x]]

VARIABLES
  clock,     \* Date.now()
  env,       \* process.env: DEXCOM_USE_SANDBOX, and whether the credentials are set
  ledger,    \* rateLimits/global .calls
  tokens,    \* the dexcomTokens collection: userId -> DexcomTokens
  grant,     \* the vendor: per user, the token pair it currently accepts (0: none)
  readings,  \* the glucoseReadings collection: docId -> StoredGlucoseReading
  task,      \* per invocation: kind, position and locals
  sweep,     \* the scheduledGlucoseDataPull run
  calls,     \* history: the checkRateLimit calls that returned, in order of return
  requests,  \* history: vendor API requests served, per tick
  written    \* history: per (userId, instant), the reading last committed

vars == <<clock, env, ledger, tokens, grant, readings, task, sweep, calls,
          requests, written>>

\* ------------------------------------------------------------ rate limiter
NoResult == [allowed |-> FALSE, remaining |-> 0 - 1, resetTime |-> 0 - 1]

\* Mutant: the boundary entry (timestamp = windowStart) is kept.
recentCalls_Inclusive(data, windowStart) ==
  SelectSeq(data, LAMBDA timestamp : timestamp >= windowStart)

\* (data?.calls || []).filter(timestamp => timestamp > windowStart)
recentCalls(data, windowStart) == SelectSeq(data, LAMBDA timestamp : timestamp > windowStart)

\* remaining = RATE_LIMIT_MAX_CALLS - recentCalls.length
remainingOf(data, now) ==
  RATE_LIMIT_MAX_CALLS - Len(recentCalls(data, now - RATE_LIMIT_WINDOW_MS))

\* Mutant: remaining >= 0.
allowedOf_OffByOne(data, now) == remainingOf(data, now) >= 0

\* allowed = remaining > 0
allowedOf(data, now) == remainingOf(data, now) > 0

\* Mutant: a denied call writes the list back without its oldest entry.
TxnWrite_EvictsOnDeny(data, now) ==
  IF allowedOf(data, now)
    THEN Append(recentCalls(data, now - RATE_LIMIT_WINDOW_MS), now)
    ELSE Tail(data)

\* Mutant: the write is not guarded by `allowed`.
TxnWrite_Unguarded(data, now) ==
  Append(recentCalls(data, now - RATE_LIMIT_WINDOW_MS), now)

\* The document after the transaction: written only when allowed.
TxnWrite(data, now) ==
  IF allowedOf(data, now)
    THEN Append(recentCalls(data, now - RATE_LIMIT_WINDOW_MS), now)
    ELSE data

\* What the transaction function returns.
TxnResult(data, now) ==
  [allowed |-> allowedOf(data, now),
   remaining |-> Max(0, remainingOf(data, now)),
   resetTime |-> now + RATE_LIMIT_WINDOW_MS]

\* Mutant: fail closed.
CatchResult_FailClosed(now) ==
  [allowed |-> FALSE,
   remaining |-> 0,
   resetTime |-> now + RATE_LIMIT_WINDOW_MS]

\* The catch branch: fail open.
CatchResult(now) ==
  [allowed |-> TRUE,
   remaining |-> RATE_LIMIT_MAX_CALLS,
   resetTime |-> now + RATE_LIMIT_WINDOW_MS]

\* ------------------------------------------------------------------- dates
\* new Date(s).getTime() of an unparseable string.
NaN == 0 - 1000000

\* new Date('2020-01-01'), in ticks before tick 0 (1461 days).
minAllowedDate == 0 - 70128
\* maxRangeMs: 365 days.
maxRangeMs == 17520
\* The default range: the last 12 hours.
DEFAULT_RANGE_MS == 24

\* new Date(s).getTime() for the date strings of the model.
ParseDate(s) ==
  CASE s = "2019-12-31T23:30:00Z" -> minAllowedDate - 1
    [] s = "2022-12-31T00:00:00Z" -> 0 - 17568
    [] s = "2023-12-31T23:00:00Z" -> 0 - 2
    [] s = "2023-12-31T23:30:00Z" -> 0 - 1
    [] s = "2023-12-31T23:30:00" -> 0 - 1
    [] s = "2023-12-31T23:30:00.000" -> 0 - 1
    [] s = "2024-01-01T00:00:00Z" -> 0
    [] s = "2024-01-01T00:00:00" -> 0
    [] s = "2024-01-03T00:00:00Z" -> 96
    [] s = "2024-01-04T00:00:00Z" -> 144
    [] OTHER -> NaN

\* data.startDate / data.endDate missing.
NoDates == [startDate |-> "", endDate |-> ""]

\* parsedStartDate, parsedEndDate.
Parsed(req, now) ==
  IF req.startDate # "" /\ req.endDate # ""
    THEN [start |-> ParseDate(req.startDate), end |-> ParseDate(req.endDate)]
    ELSE [start |-> now - DEFAULT_RANGE_MS, end |-> now]

\* Mutant: the ordering of start and end is checked before the floor date.
DateError_OrderingFirst(req, now, adjusting) ==
  LET p == Parsed(req, now) IN
  IF p.start = NaN \/ p.end = NaN THEN "Invalid date format provided"
  ELSE IF p.start >= p.end THEN "Start date must be before end date"
  ELSE IF p.start < minAllowedDate THEN "Start date cannot be before 2020"
  ELSE IF p.end < minAllowedDate THEN "End date cannot be before 2020"
  ELSE IF p.end - p.start > maxRangeMs THEN "Date range cannot exceed 1 year"
  ELSE IF ~adjusting /\ p.start > now THEN "Start date cannot be in the future"
  ELSE ""

\* The validation of dexcomFetchGlucoseData, in the order of the source: the
\* first failing check, or "" when the dates pass.  `adjusting` is
\* config.useSandbox && dataRange.
DateError(req, now, adjusting) ==
  LET p == Parsed(req, now) IN
  IF p.start = NaN \/ p.end = NaN THEN "Invalid date format provided"
  ELSE IF p.start < minAllowedDate THEN "Start date cannot be before 2020"
  ELSE IF p.end < minAllowedDate THEN "End date cannot be before 2020"
  ELSE IF p.start >= p.end THEN "Start date must be before end date"
  ELSE IF p.end - p.start > maxRangeMs THEN "Date range cannot exceed 1 year"
  ELSE IF ~adjusting /\ p.start > now THEN "Start date cannot be in the future"
  ELSE ""

\* ----------------------------------------------------------------- sandbox
\* The window used when the request lies outside the available data: 12 hours.
SANDBOX_WINDOW_MS == 24

\* Mutant: a window outside the range keeps its length.
adjustDatesForSandbox_KeepsLength(requestedStartDate, requestedEndDate, dataRange, sandbox) ==
  IF ~sandbox \/ dataRange = None
    THEN [startDate |-> requestedStartDate, endDate |-> requestedEndDate,
          adjusted |-> FALSE]
  ELSE LET availableStart == dataRange[1].start
           availableEnd == dataRange[1].end
           duration == requestedEndDate - requestedStartDate
           adjustedStart == Max(requestedStartDate, availableStart)
           adjustedEnd == Min(requestedEndDate, availableEnd) IN
    IF requestedStartDate > availableEnd \/ requestedEndDate < availableStart
      THEN [startDate |-> availableEnd - duration, endDate |-> availableEnd,
            adjusted |-> TRUE]
      ELSE [startDate |-> adjustedStart, endDate |-> adjustedEnd,
            adjusted |-> adjustedStart # requestedStartDate
                           \/ adjustedEnd # requestedEndDate]

\* Mutant: the 12 hour window is not capped at the available span.
adjustDatesForSandbox_NoCap(requestedStartDate, requestedEndDate, dataRange, sandbox) ==
  IF ~sandbox \/ dataRange = None
    THEN [startDate |-> requestedStartDate, endDate |-> requestedEndDate,
          adjusted |-> FALSE]
  ELSE LET availableStart == dataRange[1].start
           availableEnd == dataRange[1].end
           adjustedStart == Max(requestedStartDate, availableStart)
           adjustedEnd == Min(requestedEndDate, availableEnd) IN
    IF requestedStartDate > availableEnd \/ requestedEndDate < availableStart
      THEN [startDate |-> availableEnd - SANDBOX_WINDOW_MS,
            endDate |-> availableEnd, adjusted |-> TRUE]
      ELSE [startDate |-> adjustedStart, endDate |-> adjustedEnd,
            adjusted |-> adjustedStart # requestedStartDate
                           \/ adjustedEnd # requestedEndDate]

\* adjustDatesForSandbox(requestedStartDate, requestedEndDate, dataRange,
\* useSandbox); dataRange is None when egvs.start or egvs.end is missing.
adjustDatesForSandbox(requestedStartDate, requestedEndDate, dataRange, sandbox) ==
  IF ~sandbox \/ dataRange = None
    THEN [startDate |-> requestedStartDate, endDate |-> requestedEndDate,
          adjusted |-> FALSE]
  ELSE LET availableStart == dataRange[1].start
           availableEnd == dataRange[1].end
           duration == Min(SANDBOX_WINDOW_MS, availableEnd - availableStart)
           adjustedStart == Max(requestedStartDate, availableStart)
           adjustedEnd == Min(requestedEndDate, availableEnd) IN
    IF requestedStartDate > availableEnd \/ requestedEndDate < availableStart
      THEN [startDate |-> availableEnd - duration, endDate |-> availableEnd,
            adjusted |-> TRUE]
      ELSE [startDate |-> adjustedStart, endDate |-> adjustedEnd,
            adjusted |-> adjustedStart # requestedStartDate
                           \/ adjustedEnd # requestedEndDate]

\* ---------------------------------------------------------------- readings
\* Mutant: the document id is the instant alone.
DocId_InstantOnly(userId, ms) == ToString(ms)

\* `${userId}_${new Date(reading.systemTime).getTime()}`
DocId(userId, ms) == userId \o "_" \o ToString(ms)

\* Mutant: the document id leaves the user out.
StoredReading_NoUser(userId, reading) ==
  [id |-> DocId("", ParseDate(reading.systemTime)),
   doc |-> [userId |-> userId,
            systemTime |-> ParseDate(reading.systemTime),
            value |-> reading.value,
            unit |-> "mg/dL",
            trend |-> reading.trend]]

\* One iteration of the loop of storeGlucoseReadings: the document reference
\* and the StoredGlucoseReading written to it.
StoredReading(userId, reading) ==
  [id |-> DocId(userId, ParseDate(reading.systemTime)),
   doc |-> [userId |-> userId,
            systemTime |-> ParseDate(reading.systemTime),
            value |-> reading.value,
            unit |-> "mg/dL",
            trend |-> reading.trend]]

\* set(docRef, data, {merge: true}): the fields of data over those stored.
Merge(coll, id, data) ==
  IF id \in DOMAIN coll
    THEN Put(coll, id, [f \in DOMAIN coll[id] \cup DOMAIN data |->
                          IF f \in DOMAIN data THEN data[f] ELSE coll[id][f]])
    ELSE Put(coll, id, data)

\* batch.commit(): the sets of the batch applied in the order of the loop.
RECURSIVE Commit(_, _, _)
Commit(coll, userId, batch) ==
  IF batch = << >> THEN coll
  ELSE LET w == StoredReading(userId, Head(batch)) IN
       Commit(Merge(coll, w.id, w.doc), userId, Tail(batch))

\* Timestamp.fromDate(new Date(systemTime)) throws on an invalid date.
Storable(batch) == \A i \in DOMAIN batch : ParseDate(batch[i].systemTime) # NaN

\* The last reading of the batch for each (userId, instant) it holds.
RECURSIVE Latest(_, _, _)
Latest(w, userId, batch) ==
  IF batch = << >> THEN w
  ELSE Latest(Put(w, <<userId, ParseDate(Head(batch).systemTime)>>,
                  [value |-> Head(batch).value, trend |-> Head(batch).trend]),
              userId, Tail(batch))

\* ------------------------------------------------------------------ config
\* getDexcomConfig().useSandbox
useSandbox == env.DEXCOM_USE_SANDBOX = "false"

\* DEXCOM_API_CONFIG.SANDBOX_BASE_URL and PRODUCTION_BASE_URL
SANDBOX_BASE_URL == "https://sandbox-api.dexcom.com"

PRODUCTION_BASE_URL == "https://api.dexcom.com"

\* getDexcomBaseUrl(useSandbox)
getDexcomBaseUrl(sandbox) == IF sandbox THEN SANDBOX_BASE_URL ELSE PRODUCTION_BASE_URL

\* clientId && clientSecret && redirectUri of getDexcomConfig().
configured == env.credentials

\* ------------------------------------------------------------------ tokens
\* Mutant: a token expiring in exactly the buffer is not refreshed.
NeedsRefresh_Strict(now, tok) ==
  now >= tok.expiresAt \/ now + TOKEN_EXPIRY_BUFFER_MS > tok.expiresAt

\* now >= tokens.expiresAt || now + TOKEN_EXPIRY_BUFFER_MS >= tokens.expiresAt
NeedsRefresh(now, tok) ==
  now >= tok.expiresAt \/ now + TOKEN_EXPIRY_BUFFER_MS >= tok.expiresAt

\* Mutant: the rotated refresh token is dropped, the one sent is kept.
NewTokens_KeepsOldRefresh(userId, pair, now, sent) ==
  [userId |-> userId,
   accessToken |-> pair,
   refreshToken |-> sent,
   expiresAt |-> now + EXPIRES_IN,
   refreshTokenCreatedAt |-> now]

\* The record built from the vendor's token response {access_token,
\* refresh_token, expires_in}; `pair` numbers the pair the vendor issued,
\* `sent` is the refresh token of the request.
NewTokens(userId, pair, now, sent) ==
  [userId |-> userId,
   accessToken |-> pair,
   refreshToken |-> pair,
   expiresAt |-> now + EXPIRES_IN,
   refreshTokenCreatedAt |-> now]

\* ------------------------------------------------------------------- tasks
EmptyFn == [x \in {} |-> 0]

IdleTask ==
  [kind |-> "idle", user |-> "", pc |-> "idle", req |-> NoDates,
   now |-> 0, rl |-> NoResult, tok |-> None, range |-> None,
   data |-> << >>, out |-> "", fault |-> "", status |-> 0,
   args |-> None, ret |-> None]

IdleSweep == [pc |-> "idle", snapshot |-> {}]

\* The invocation ends: a return value or an error code reaches the caller
\* (for a sweep task: the promise settles) and its other locals are gone.
Finish(rec, out) ==
  [IdleTask EXCEPT !.kind = rec.kind, !.user = rec.user, !.req = rec.req,
                   !.pc = "done", !.rl = rec.rl, !.data = rec.data,
                   !.fault = rec.fault, !.status = rec.status, !.out = out]

\* checkRateLimit() is entered: now = Date.now(), then the transaction is awaited.
EnterRateLimit(rec) == [rec EXCEPT !.now = clock, !.pc = "rl_txn"]

\* fetch(`${baseUrl}/v3/users/self/egvs?${params}`) is awaited.
SendEgvs(rec) == [rec EXCEPT !.pc = "egvs"]

\* dexcomFetchGlucoseData from the date parsing to the egvs request.
ValidateAndFetch(rec) ==
  LET err == DateError(rec.req, clock, useSandbox /\ rec.range # None) IN
  IF err # "" THEN Finish(rec, err) ELSE SendEgvs(rec)

\* The handler once it holds fresh tokens.
Proceed(rec) ==
  CASE rec.kind = "fetch" ->
         IF useSandbox THEN [rec EXCEPT !.pc = "range"] ELSE ValidateAndFetch(rec)
    [] rec.kind \in {"sweep", "test"} -> SendEgvs(rec)
    [] rec.kind = "oauth" -> Finish(rec, "success=true")
    [] OTHER -> Finish(rec, "ok")

\* `if (now >= expiresAt || now + BUFFER >= expiresAt) tokens = await
\* refreshAccessToken(...)`, with now = Date.now().
EnsureFresh(rec) ==
  IF NeedsRefresh(clock, rec.tok[1]) THEN [rec EXCEPT !.pc = "refresh"] ELSE Proceed(rec)

\* Mutant: the sweep goes on with a user the rate limiter turned away.
AfterRateLimit_SweepIgnoresDenial(rec, res) ==
  LET r == [rec EXCEPT !.rl = res] IN
  CASE rec.kind = "fetch" ->
         IF res.allowed THEN EnsureFresh(r) ELSE Finish(r, "resource-exhausted")
    [] rec.kind = "sweep" -> EnsureFresh(r)
    [] OTHER -> Finish(r, "returned")

\* The handler once checkRateLimit has returned `res`.
AfterRateLimit(rec, res) ==
  LET r == [rec EXCEPT !.rl = res] IN
  CASE rec.kind = "fetch" ->
         IF res.allowed THEN EnsureFresh(r) ELSE Finish(r, "resource-exhausted")
    [] rec.kind = "sweep" ->
         IF res.allowed THEN EnsureFresh(r) ELSE Finish(r, "skipped")
    [] OTHER -> Finish(r, "returned")

\* The handler once getUserTokens has returned `doc` (None: null).
AfterGet(rec, doc) ==
  LET r == [rec EXCEPT !.tok = doc] IN
  IF doc = None THEN Finish(r, "not-found")
  ELSE CASE rec.kind = "fetch" -> EnterRateLimit(r)
         [] rec.kind = "test" -> EnsureFresh(r)
         [] OTHER -> [r EXCEPT !.pc = "refresh"]

\* Mutant: the callback treats a failed save like any other exception.
Thrown_SaveFailureSurfaces(rec, code) ==
  IF rec.kind = "oauth" THEN Finish(rec, "error=internal_error") ELSE Finish(rec, code)

\* Mutant: no handler catches; the exception reaches the caller.
Thrown_Uncaught(rec, code) == Finish(rec, code)

\* What the handler of rec does with an exception raised where it stands:
\* the sweep's per-user catch logs it, dexcomTestRawData's catch replaces it,
\* dexcomOAuthCallback ignores a failed save and redirects on anything else,
\* the others let it reach the caller.
Thrown(rec, code) ==
  CASE rec.kind = "sweep" -> Finish(rec, "caught")
    [] rec.kind = "test" /\ rec.pc = "egvs" -> Finish(rec, "internal")
    [] rec.kind = "oauth" /\ rec.pc = "save" -> Finish(rec, "success=true")
    [] rec.kind = "oauth" -> Finish(rec, "error=internal_error")
    [] OTHER -> Finish(rec, code)

\* Mutant: no per-user try/catch: the rejection ends the sweep run, and the
\* promises still pending are abandoned.
ThrowIn_Aborts(t, code, why) ==
  [x \in Tasks |->
     IF x = t THEN [Thrown(task[t], code) EXCEPT !.fault = why]
     ELSE IF task[t].kind = "sweep" /\ task[x].kind = "sweep" /\ task[x].pc # "done"
       THEN Finish(task[x], "abandoned")
     ELSE task[x]]

\* The tasks after an exception in task t; `why` records the failure injected.
ThrowIn(t, code, why) ==
  [task EXCEPT ![t] = [Thrown(task[t], code) EXCEPT !.fault = why]]

\* One more vendor request served in this tick.
Served == [requests EXCEPT ![clock] = @ + 1]

\* ------------------------------------------------------------ rate limiter
\* The history of the calls made through the limiter harness.
Logged(rec, res, failed) ==
  IF rec.kind = "rl"
    THEN Append(calls, [now |-> rec.now, allowed |-> res.allowed, failed |-> failed])
    ELSE calls

\* db.runTransaction commits: read, filter, append and write in one step.
CheckRateLimitTxn(t) ==
  /\ task[t].pc = "rl_txn"
  /\ LET res == TxnResult(ledger, task[t].now) IN
       /\ ledger' = TxnWrite(ledger, task[t].now)
       /\ task' = [task EXCEPT ![t] = AfterRateLimit(task[t], res)]
       /\ calls' = Logged(task[t], res, FALSE)
  /\ UNCHANGED <<clock, env, tokens, grant, readings, sweep, requests, written>>

\* db.runTransaction rejects (storage unavailable): the catch branch.
CheckRateLimitCatch(t) ==
  /\ task[t].pc = "rl_txn"
  /\ LET res == CatchResult(task[t].now) IN
       /\ task' = [task EXCEPT ![t] = AfterRateLimit(task[t], res)]
       /\ calls' = Logged(task[t], res, TRUE)
  /\ UNCHANGED <<clock, env, ledger, tokens, grant, readings, sweep, requests, written>>

\* --------------------------------------------------------------- the clock
Tick ==
  /\ clock < MaxTime
  /\ clock' = clock + 1
  /\ UNCHANGED <<env, ledger, tokens, grant, readings, task, sweep, calls,
                 requests, written>>

\* ------------------------------------------------------------ token store
\* getUserTokens resolves: the document, or null when there is none.
GetUserTokens(t) ==
  /\ task[t].pc = "get"
  /\ LET u == task[t].user IN
       task' = [task EXCEPT ![t] =
                  AfterGet(task[t], IF u \in DOMAIN tokens THEN Some(tokens[u]) ELSE None)]
  /\ UNCHANGED <<clock, env, ledger, tokens, grant, readings, sweep, calls,
                 requests, written>>

\* getUserTokens: the read fails, the catch returns null.
GetUserTokensFails(t) ==
  /\ task[t].pc = "get"
  /\ task' = [task EXCEPT ![t] = [AfterGet(task[t], None) EXCEPT !.fault = "get"]]
  /\ UNCHANGED <<clock, env, ledger, tokens, grant, readings, sweep, calls,
                 requests, written>>

\* refreshAccessToken: the vendor answers the refresh grant.  It accepts the
\* refresh token of the pair it currently holds for the user and rotates it;
\* any other refresh token is refused.
VendorRefresh(t) ==
  /\ task[t].pc = "refresh"
  /\ LET u == task[t].user
         sent == task[t].tok[1].refreshToken IN
       IF sent = grant[u]
         THEN /\ grant[u] < MaxGen
              /\ grant' = [grant EXCEPT ![u] = @ + 1]
              /\ task' = [task EXCEPT ![t].tok = Some(NewTokens(u, grant[u] + 1, clock, sent)),
                                      ![t].pc = "save"]
         ELSE /\ grant' = grant
              /\ task' = ThrowIn(t, "internal", "stale")
  /\ requests' = Served
  /\ UNCHANGED <<clock, env, ledger, tokens, readings, sweep, calls, written>>

\* refreshAccessToken: the vendor answers with an error status, or the request fails.
VendorRefreshFails(t) ==
  /\ task[t].pc = "refresh"
  /\ task' = ThrowIn(t, "internal", "refresh")
  /\ requests' = Served
  /\ UNCHANGED <<clock, env, ledger, tokens, grant, readings, sweep, calls, written>>

\* refreshAccessToken: the vendor answers the refresh grant with `status`;
\* whatever the status, HttpsError('internal') is thrown.
VendorRefreshError(t, status) ==
  /\ task[t].pc = "refresh"
  /\ task' = [task EXCEPT ![t] =
                [Thrown(task[t], "internal") EXCEPT !.fault = "refresh", !.status = status]]
  /\ requests' = Served
  /\ UNCHANGED <<clock, env, ledger, tokens, grant, readings, sweep, calls, written>>

\* Mutant: the write merges the new access token into the stored record.
SaveUserTokens_Merges(t) ==
  /\ task[t].pc = "save"
  /\ LET u == task[t].user
         new == task[t].tok[1] IN
       tokens' = IF u \in DOMAIN tokens
                   THEN [tokens EXCEPT ![u].accessToken = new.accessToken,
                                       ![u].expiresAt = new.expiresAt]
                   ELSE Put(tokens, u, new)
  /\ task' = [task EXCEPT ![t] = Proceed(task[t])]
  /\ UNCHANGED <<clock, env, ledger, grant, readings, sweep, calls, requests, written>>

\* saveUserTokens: doc(userId).set(tokenData).
SaveUserTokens(t) ==
  /\ task[t].pc = "save"
  /\ tokens' = Put(tokens, task[t].user, task[t].tok[1])
  /\ task' = [task EXCEPT ![t] = Proceed(task[t])]
  /\ UNCHANGED <<clock, env, ledger, grant, readings, sweep, calls, requests, written>>

\* saveUserTokens: the write fails and the error is rethrown.
SaveUserTokensFails(t) ==
  /\ task[t].pc = "save"
  /\ task' = ThrowIn(t, "internal", "save")
  /\ UNCHANGED <<clock, env, ledger, tokens, grant, readings, sweep, calls,
                 requests, written>>

\* Mutant: disconnecting also deletes the user's readings.
DeleteUserTokens_PurgesReadings(t) ==
  /\ task[t].pc = "delete"
  /\ tokens' = Drop(tokens, task[t].user)
  /\ readings' = [d \in {x \in DOMAIN readings : readings[x].userId # task[t].user}
                    |-> readings[d]]
  /\ task' = [task EXCEPT ![t] = Finish(task[t], "ok")]
  /\ UNCHANGED <<clock, env, ledger, grant, sweep, calls, requests, written>>

\* deleteUserTokens: doc(userId).delete().
DeleteUserTokens(t) ==
  /\ task[t].pc = "delete"
  /\ tokens' = Drop(tokens, task[t].user)
  /\ task' = [task EXCEPT ![t] = Finish(task[t], "ok")]
  /\ UNCHANGED <<clock, env, ledger, grant, readings, sweep, calls, requests, written>>

\* deleteUserTokens: the delete fails; dexcomDisconnect raises internal.
DeleteUserTokensFails(t) ==
  /\ task[t].pc = "delete"
  /\ task' = ThrowIn(t, "internal", "delete")
  /\ UNCHANGED <<clock, env, ledger, tokens, grant, readings, sweep, calls,
                 requests, written>>

\* ------------------------------------------------------------- vendor data
\* getDexcomDataRange resolves: the range, or null on any failure.
VendorDataRange(t, range) ==
  /\ task[t].pc = "range"
  /\ task' = [task EXCEPT ![t] = ValidateAndFetch([task[t] EXCEPT !.range = range])]
  /\ requests' = Served
  /\ UNCHANGED <<clock, env, ledger, tokens, grant, readings, sweep, calls, written>>

\* The handler once the egvs response is parsed: storeGlucoseReadings up to
\* batch.commit() (the sweep stores only a non-empty list).
AfterEgvs(rec, batch) ==
  LET r == [rec EXCEPT !.data = batch] IN
  IF rec.kind = "test" \/ batch = << >> THEN Finish(r, "ok")
  ELSE IF ~Storable(batch) THEN [Thrown(r, "internal") EXCEPT !.fault = "store"]
  ELSE [r EXCEPT !.pc = "store"]

\* The egvs request is answered 200 with `batch` under records or egvs.
VendorEgvs(t, batch) ==
  /\ task[t].pc = "egvs"
  /\ task' = [task EXCEPT ![t] = AfterEgvs(task[t], batch)]
  /\ requests' = Served
  /\ UNCHANGED <<clock, env, ledger, tokens, grant, readings, sweep, calls, written>>

\* The HttpsError code dexcomFetchGlucoseData raises for a non-ok egvs response.
EgvsErrorCode(status, mentionsDate) ==
  IF status = 400 /\ mentionsDate THEN "invalid-argument" ELSE "failed-precondition"

\* The egvs request is answered with an error status.
VendorEgvsError(t, status, mentionsDate) ==
  /\ task[t].pc = "egvs"
  /\ task' = [task EXCEPT ![t] =
       [(CASE task[t].kind = "fetch" -> Finish(task[t], EgvsErrorCode(status, mentionsDate))
           [] task[t].kind = "sweep" -> Finish(task[t], "fetch-failed")
           [] OTHER -> Thrown(task[t], "failed-precondition"))
        EXCEPT !.fault = "egvs", !.status = status]]
  /\ requests' = Served
  /\ UNCHANGED <<clock, env, ledger, tokens, grant, readings, sweep, calls, written>>

\* The egvs request itself fails (fetch rejects).
VendorEgvsThrows(t) ==
  /\ task[t].pc = "egvs"
  /\ task' = ThrowIn(t, "internal", "egvs")
  /\ UNCHANGED <<clock, env, ledger, tokens, grant, readings, sweep, calls,
                 requests, written>>

\* storeGlucoseReadings: batch.commit() applies every set of the batch.
StoreCommit(t) ==
  /\ task[t].pc = "store"
  /\ readings' = Commit(readings, task[t].user, task[t].data)
  /\ written' = Latest(written, task[t].user, task[t].data)
  /\ task' = [task EXCEPT ![t] = Finish(task[t], "ok")]
  /\ UNCHANGED <<clock, env, ledger, tokens, grant, sweep, calls, requests>>

\* storeGlucoseReadings: batch.commit() fails and writes nothing.
StoreCommitFails(t) ==
  /\ task[t].pc = "store"
  /\ task' = ThrowIn(t, "internal", "store")
  /\ UNCHANGED <<clock, env, ledger, tokens, grant, readings, sweep, calls,
                 requests, written>>

\* ------------------------------------------------------------- entry points
\* Slot t takes the next invocation (the slots are filled in order).
Free(t) == task[t].pc = "idle" /\ (t = "t1" \/ task["t1"].pc # "idle")

\* dexcomFetchGlucoseData(data) by user u: getUserTokens is awaited.
FetchCall(t, u, req) ==
  /\ Free(t)
  /\ task' = [task EXCEPT ![t] =
                [IdleTask EXCEPT !.kind = "fetch", !.user = u, !.req = req, !.pc = "get"]]
  /\ UNCHANGED <<clock, env, ledger, tokens, grant, readings, sweep, calls,
                 requests, written>>

\* dexcomRefreshToken by user u.
RefreshCall(t, u) ==
  /\ Free(t)
  /\ task' = [task EXCEPT ![t] =
                [IdleTask EXCEPT !.kind = "refresh", !.user = u, !.pc = "get"]]
  /\ UNCHANGED <<clock, env, ledger, tokens, grant, readings, sweep, calls,
                 requests, written>>

\* dexcomTestRawData by user u.
TestCall(t, u) ==
  /\ Free(t)
  /\ task' = [task EXCEPT ![t] =
                [IdleTask EXCEPT !.kind = "test", !.user = u, !.pc = "get"]]
  /\ UNCHANGED <<clock, env, ledger, tokens, grant, readings, sweep, calls,
                 requests, written>>

\* dexcomDisconnect by user u.
DisconnectCall(t, u) ==
  /\ Free(t)
  /\ task' = [task EXCEPT ![t] =
                [IdleTask EXCEPT !.kind = "disconnect", !.user = u, !.pc = "delete"]]
  /\ UNCHANGED <<clock, env, ledger, tokens, grant, readings, sweep, calls,
                 requests, written>>

\* An onCall function invoked without context.auth: unauthenticated.
CallUnauthenticated(t) ==
  /\ Free(t)
  /\ task' = [task EXCEPT ![t] = Finish([IdleTask EXCEPT !.kind = "anonymous"],
                                        "unauthenticated")]
  /\ UNCHANGED <<clock, env, ledger, tokens, grant, readings, sweep, calls,
                 requests, written>>

\* scheduledGlucoseDataPull: the snapshot of dexcomTokens arrives and the map
\* starts one promise per document, each up to its first await (the
\* transaction of checkRateLimit).
SweepStart ==
  /\ sweep.pc = "idle"
  /\ sweep' = [pc |-> IF DOMAIN tokens = {} THEN "done" ELSE "running",
               snapshot |-> DOMAIN tokens]
  /\ task' = [x \in Tasks |->
                IF x \in DOMAIN tokens
                  THEN EnterRateLimit([IdleTask EXCEPT !.kind = "sweep",
                                                       !.user = tokens[x].userId,
                                                       !.tok = Some(tokens[x])])
                  ELSE task[x]]
  /\ UNCHANGED <<clock, env, ledger, tokens, grant, readings, calls, requests, written>>

\* scheduledGlucoseDataPull: the collection read fails; the outer catch logs it.
SweepStartFails ==
  /\ sweep.pc = "idle"
  /\ sweep' = [pc |-> "done", snapshot |-> {}]
  /\ UNCHANGED <<clock, env, ledger, tokens, grant, readings, task, calls,
                 requests, written>>

\* Promise.all resolves once every promise of the map has settled.
SweepFinish ==
  /\ sweep.pc = "running"
  /\ \A u \in sweep.snapshot : task[u].pc = "done"
  /\ sweep' = [sweep EXCEPT !.pc = "done"]
  /\ UNCHANGED <<clock, env, ledger, tokens, grant, readings, task, calls,
                 requests, written>>

\* ------------------------------------------------------------------- OAuth
\* One hour, the age at which a state parameter expires.
STATE_MAX_AGE_MS == 2

\* The state parameter as the callback sees it: how it decodes (fmt) and, for
\* a JSON object, its fields (a missing field is "" or None).
StateParam(fmt, userId, timestamp, nonce) ==
  [fmt |-> fmt, userId |-> userId, timestamp |-> timestamp, nonce |-> nonce]

\* req.query.state absent.
NoState == StateParam("missing", "", None, "")

\* generateSecureState(userId) called at `now`.
generateSecureState(userId, now) == StateParam("object", userId, Some(now), "nonce")

\* Mutant: the age is tested before the user.
validateState_AgeFirst(state, expectedUserId, now) ==
  IF state.fmt # "object" THEN [valid |-> FALSE, reason |-> "Invalid state format"]
  ELSE IF state.userId = "" \/ state.timestamp = None \/ state.nonce = ""
    THEN [valid |-> FALSE, reason |-> "Missing required state fields"]
  ELSE IF now - state.timestamp[1] > STATE_MAX_AGE_MS
    THEN [valid |-> FALSE, reason |-> "State parameter expired"]
  ELSE IF state.userId # expectedUserId
    THEN [valid |-> FALSE, reason |-> "User ID mismatch"]
  ELSE [valid |-> TRUE, reason |-> ""]

\* Mutant: a state exactly one hour old is already expired.
validateState_StrictAge(state, expectedUserId, now) ==
  IF state.fmt # "object" THEN [valid |-> FALSE, reason |-> "Invalid state format"]
  ELSE IF state.userId = "" \/ state.timestamp = None \/ state.nonce = ""
    THEN [valid |-> FALSE, reason |-> "Missing required state fields"]
  ELSE IF state.userId # expectedUserId
    THEN [valid |-> FALSE, reason |-> "User ID mismatch"]
  ELSE IF now - state.timestamp[1] >= STATE_MAX_AGE_MS
    THEN [valid |-> FALSE, reason |-> "State parameter expired"]
  ELSE [valid |-> TRUE, reason |-> ""]

\* validateState(state, expectedUserId) evaluated at `now`.
validateState(state, expectedUserId, now) ==
  IF state.fmt # "object" THEN [valid |-> FALSE, reason |-> "Invalid state format"]
  ELSE IF state.userId = "" \/ state.timestamp = None \/ state.nonce = ""
    THEN [valid |-> FALSE, reason |-> "Missing required state fields"]
  ELSE IF state.userId # expectedUserId
    THEN [valid |-> FALSE, reason |-> "User ID mismatch"]
  ELSE IF now - state.timestamp[1] > STATE_MAX_AGE_MS
    THEN [valid |-> FALSE, reason |-> "State parameter expired"]
  ELSE [valid |-> TRUE, reason |-> ""]

\* encodeURIComponent(s) for the error strings of the model.
encodeURIComponent(s) ==
  CASE s = "access_denied" -> "access_denied"
    [] s = "server error" -> "server%20error"
    [] OTHER -> s

\* Mutant: the callback does not call validateState.
CallbackRedirect_SkipsValidation(q, now) ==
  IF ~configured THEN "error=configuration_error"
  ELSE IF q.error # "" THEN "error=" \o encodeURIComponent(q.error)
  ELSE IF q.code = "" \/ q.state.fmt = "missing" THEN "error=missing_parameters"
  ELSE IF q.state.fmt = "garbage" THEN "error=invalid_state"
  ELSE IF q.state.fmt = "null" THEN "error=internal_error"
  ELSE IF q.state.userId = "" THEN "error=invalid_state"
  ELSE ""

\* dexcomOAuthCallback from the query to the token request: the redirect it
\* ends with, or "" when the code is sent to the vendor.  A state that decodes
\* to JSON null makes the destructuring throw, which the outer catch turns
\* into internal_error.
CallbackRedirect(q, now) ==
  IF ~configured THEN "error=configuration_error"
  ELSE IF q.error # "" THEN "error=" \o encodeURIComponent(q.error)
  ELSE IF q.code = "" \/ q.state.fmt = "missing" THEN "error=missing_parameters"
  ELSE IF q.state.fmt = "garbage" THEN "error=invalid_state"
  ELSE IF q.state.fmt = "null" THEN "error=internal_error"
  ELSE IF q.state.userId = "" THEN "error=invalid_state"
  ELSE IF ~validateState(q.state, q.state.userId, now).valid THEN "error=invalid_state"
  ELSE ""

\* dexcomOAuthCallback(req): the request arrives, sent by q.party (the
\* endpoint is a plain HTTP function: it sees no identity of the sender).
OAuthCallback(t, q) ==
  /\ Free(t)
  /\ LET r == [IdleTask EXCEPT !.kind = "oauth", !.user = q.state.userId,
                               !.req = q, !.now = clock]
         redirect == CallbackRedirect(q, clock) IN
       task' = [task EXCEPT ![t] =
                  IF redirect # "" THEN Finish(r, redirect) ELSE [r EXCEPT !.pc = "exchange"]]
  /\ UNCHANGED <<clock, env, ledger, tokens, grant, readings, sweep, calls,
                 requests, written>>

\* dexcomOAuthStart by user u: the authorization URL carries a fresh state;
\* nothing is stored.
OAuthStart(t, u) ==
  /\ Free(t)
  /\ LET r == [IdleTask EXCEPT !.kind = "start", !.user = u, !.now = clock] IN
       task' = [task EXCEPT ![t] =
                  IF ~configured THEN Finish(r, "failed-precondition")
                  ELSE Finish([r EXCEPT !.req = [state |-> generateSecureState(u, clock)]],
                              "authUrl")]
  /\ UNCHANGED <<clock, env, ledger, tokens, grant, readings, sweep, calls,
                 requests, written>>

\* The vendor accepts the authorization code and issues a new token pair.
VendorExchange(t) ==
  /\ task[t].pc = "exchange"
  /\ LET u == task[t].user IN
       /\ grant[u] < MaxGen
       /\ grant' = [grant EXCEPT ![u] = @ + 1]
       /\ task' = [task EXCEPT ![t].tok = Some(NewTokens(u, grant[u] + 1, clock, 0)),
                               ![t].pc = "save"]
  /\ requests' = Served
  /\ UNCHANGED <<clock, env, ledger, tokens, readings, sweep, calls, written>>

\* The vendor answers the token request with an error status.
VendorExchangeError(t) ==
  /\ task[t].pc = "exchange"
  /\ task' = [task EXCEPT ![t] =
                [Finish(task[t], "error=token_exchange_failed") EXCEPT !.fault = "exchange"]]
  /\ requests' = Served
  /\ UNCHANGED <<clock, env, ledger, tokens, grant, readings, sweep, calls, written>>

\* The token request fails, or the body of the response cannot be read.
VendorExchangeThrows(t) ==
  /\ task[t].pc = "exchange"
  /\ task' = ThrowIn(t, "internal", "exchange")
  /\ UNCHANGED <<clock, env, ledger, tokens, grant, readings, sweep, calls,
                 requests, written>>

\* ------------------------------------------------------------- harnesses
\* A caller invokes checkRateLimit().
CallCheckRateLimit(t) ==
  /\ task[t].pc \in {"idle", "done"}
  /\ Len(calls) + Cardinality({x \in Tasks : task[x].pc = "rl_txn"}) < MaxCalls
  /\ task' = [task EXCEPT ![t] = EnterRateLimit([IdleTask EXCEPT !.kind = "rl"])]
  /\ UNCHANGED <<clock, env, ledger, tokens, grant, readings, sweep, calls,
                 requests, written>>

\* A caller invokes generateSecureState(u) and keeps the token.
CallGenerateSecureState(t, u) ==
  /\ task[t].pc = "idle"
  /\ task' = [task EXCEPT ![t] =
                [IdleTask EXCEPT !.kind = "state", !.pc = "issued",
                                 !.req = [state |-> generateSecureState(u, clock)]]]
  /\ UNCHANGED <<clock, env, ledger, tokens, grant, readings, sweep, calls,
                 requests, written>>

\* A caller holds a state string it did not obtain from generateSecureState.
PresentState(t, state) ==
  /\ task[t].pc \in {"idle", "done"}
  /\ task' = [task EXCEPT ![t] =
                [IdleTask EXCEPT !.kind = "presented", !.pc = "issued",
                                 !.req = [state |-> state]]]
  /\ UNCHANGED <<clock, env, ledger, tokens, grant, readings, sweep, calls,
                 requests, written>>

\* The caller invokes validateState(token, v): out is "valid" or the reason.
CallValidateState(t, v) ==
  /\ task[t].pc = "issued"
  /\ LET res == validateState(task[t].req.state, v, clock) IN
       task' = [task EXCEPT ![t].user = v, ![t].now = clock, ![t].pc = "done",
                            ![t].out = IF res.valid THEN "valid" ELSE res.reason]
  /\ UNCHANGED <<clock, env, ledger, tokens, grant, readings, sweep, calls,
                 requests, written>>

\* A caller invokes adjustDatesForSandbox(start, end, dataRange, sandbox).
CallAdjustDatesForSandbox(t, start, end, dataRange, sandbox) ==
  /\ task[t].pc \in {"idle", "done"}
  /\ task' = [task EXCEPT ![t] =
       [IdleTask EXCEPT !.kind = "adjust", !.pc = "done",
                        !.args = Some([start |-> start, end |-> end,
                                       dataRange |-> dataRange, sandbox |-> sandbox]),
                        !.ret = Some(adjustDatesForSandbox(start, end, dataRange, sandbox))]]
  /\ UNCHANGED <<clock, env, ledger, tokens, grant, readings, sweep, calls,
                 requests, written>>

\* A caller adjusts a window and then adjusts the result again.
CallAdjustDatesTwice(t, start, end, dataRange, sandbox) ==
  /\ task[t].pc \in {"idle", "done"}
  /\ LET first == adjustDatesForSandbox(start, end, dataRange, sandbox)
         second == adjustDatesForSandbox(first.startDate, first.endDate, dataRange, sandbox) IN
       task' = [task EXCEPT ![t] =
         [IdleTask EXCEPT !.kind = "adjust twice", !.pc = "done",
                          !.args = Some([start |-> start, end |-> end,
                                         dataRange |-> dataRange, sandbox |-> sandbox]),
                          !.ret = Some([first |-> first, second |-> second])]]
  /\ UNCHANGED <<clock, env, ledger, tokens, grant, readings, sweep, calls,
                 requests, written>>

\* A caller invokes storeGlucoseReadings(u, batch).
CallStore(t, u, batch) ==
  /\ task[t].pc \in {"idle", "done"}
  /\ task' = [task EXCEPT ![t] =
                AfterEgvs([IdleTask EXCEPT !.kind = "store", !.user = u], batch)]
  /\ UNCHANGED <<clock, env, ledger, tokens, grant, readings, sweep, calls,
                 requests, written>>

\* ---------------------------------------------------------- specifications
\* process.env of a deployment.
Env(sandbox, credentials) == [DEXCOM_USE_SANDBOX |-> sandbox, credentials |-> credentials]

\* The record of a user who connected before tick 0 and whose access token
\* expires at tick `exp`.
Connected(u, exp) == NewTokens(u, 1, exp - EXPIRES_IN, 0)

\* The date arguments callers send.
Requests ==
  {NoDates,
   [startDate |-> "2023-12-31T23:00:00Z", endDate |-> "2024-01-01T00:00:00Z"],
   [startDate |-> "not-a-date", endDate |-> "2024-01-01T00:00:00Z"]}

\* What the vendor's dataRange endpoint may answer (None: the call failed).
Ranges == {None, Some([start |-> 0 - 2, end |-> 0])}

\* A reading as the vendor serves it.
Reading(systemTime, value, trend) ==
  [systemTime |-> systemTime, value |-> value, trend |-> trend]

\* The egvs lists the vendor serves: empty, two instants, one instant twice
\* (in two spellings, with different value and trend), an unparseable instant.
Batches ==
  {<< >>,
   <<Reading("2024-01-01T00:00:00Z", 100, "flat")>>,
   <<Reading("2024-01-01T00:00:00", 120, "singleUp")>>,
   <<Reading("2023-12-31T23:30:00Z", 90, "flat"),
     Reading("2024-01-01T00:00:00Z", 100, "flat")>>,
   <<Reading("2024-01-01T00:00:00Z", 100, "flat"),
     Reading("2024-01-01T00:00:00", 120, "singleUp")>>,
   <<Reading("2023-12-31T23:30:00Z", 90, "flat"),
     Reading("not-a-date", 100, "flat")>>}

\* The query strings the callback receives.
Queries ==
  [party : Users,
   code : {"", "code"},
   error : {"", "access_denied", "server error"},
   state : {NoState,
            StateParam("garbage", "", None, ""),
            StateParam("null", "", None, ""),
            StateParam("object", "", Some(0), "nonce"),
            StateParam("object", "u1", None, "nonce"),
            StateParam("object", "u1", Some(0), "")}
           \cup {generateSecureState(u, 0) : u \in Users}]

Empty ==
  /\ clock = 0
  /\ ledger = << >>
  /\ readings = EmptyFn
  /\ task = [t \in Tasks |-> IdleTask]
  /\ sweep = IdleSweep
  /\ calls = << >>
  /\ requests = [i \in 0..MaxTime |-> 0]
  /\ written = EmptyFn

\* A fresh deployment: nobody has connected.
Init ==
  /\ Empty
  /\ env = Env("true", TRUE)
  /\ tokens = EmptyFn
  /\ grant = [u \in Users |-> 0]

\* The rate limiter alone: callers of checkRateLimit and the clock.
NextRL ==
  \/ Tick
  \/ \E t \in Slots : CallCheckRateLimit(t)
  \/ \E t \in Slots : CheckRateLimitTxn(t)
  \/ \E t \in Slots : CheckRateLimitCatch(t)

SpecRL == Init /\ [][NextRL]_vars

\* storeGlucoseReadings alone: callers storing the lists the vendor serves.
NextStore ==
  \/ \E t \in Slots, u \in Users, batch \in Batches : CallStore(t, u, batch)
  \/ \E t \in Slots : StoreCommit(t)
  \/ \E t \in Slots : StoreCommitFails(t)

SpecStore == Init /\ [][NextStore]_vars

\* The state token alone: tokens issued and validated as the clock advances.
NextState ==
  \/ Tick
  \/ \E t \in Slots, u \in Users : CallGenerateSecureState(t, u)
  \/ \E t \in Slots, v \in Users : CallValidateState(t, v)

SpecState == Init /\ [][NextState]_vars

\* The state strings a caller can present: what they decode to, with every
\* combination of absent fields.
PresentedStates ==
  {StateParam(fmt, userId, timestamp, nonce) :
     fmt \in {"garbage", "null", "object"}, userId \in {"", "u1"},
     timestamp \in {None, Some(0)}, nonce \in {"", "nonce"}}

\* validateState alone on arbitrary state strings, as the clock advances.
NextPresented ==
  \/ Tick
  \/ \E t \in Slots, state \in PresentedStates : PresentState(t, state)
  \/ \E t \in Slots, v \in Users : CallValidateState(t, v)

SpecPresented == Init /\ [][NextPresented]_vars

\* The instants of the sandbox clamp, six hours apart.
ClampInstants == {0, 12, 24, 36, 48, 60}

\* Windows and available ranges: start before end.
ClampWindows == {w \in [start : ClampInstants, end : ClampInstants] : w.start < w.end}

\* adjustDatesForSandbox alone, over every window and available range.
NextClamp ==
  \E w \in ClampWindows, sandbox \in BOOLEAN,
     dataRange \in {None} \cup {Some(d) : d \in ClampWindows} :
    CallAdjustDatesForSandbox("t1", w.start, w.end, dataRange, sandbox)

SpecClamp == Init /\ [][NextClamp]_vars

\* Available ranges, the single instant included.
ClampRanges == {d \in [start : ClampInstants, end : ClampInstants] : d.start <= d.end}

\* adjustDatesForSandbox applied twice, over every window and available range.
NextTwice ==
  \E w \in ClampWindows, sandbox \in BOOLEAN,
     dataRange \in {None} \cup {Some(d) : d \in ClampRanges} :
    CallAdjustDatesTwice("t1", w.start, w.end, dataRange, sandbox)

SpecTwice == Init /\ [][NextTwice]_vars

\* The callback alone, in a deployment with or without credentials.
InitOAuth ==
  /\ Empty
  /\ \E c \in BOOLEAN : env = Env("true", c)
  /\ tokens = EmptyFn
  /\ grant = [u \in Users |-> 0]

OAuthSteps(t) ==
  \/ VendorExchange(t)
  \/ VendorExchangeError(t)
  \/ VendorExchangeThrows(t)
  \/ SaveUserTokens(t)
  \/ SaveUserTokensFails(t)

NextOAuth ==
  \/ Tick
  \/ \E t \in Slots, q \in Queries : OAuthCallback(t, q)
  \/ \E t \in Slots : OAuthSteps(t)

SpecOAuth == InitOAuth /\ [][NextOAuth]_vars

\* The scheduled sweep alone, over two connected users; each access token
\* expires at tick 1 or 2.
InitSweep ==
  /\ Empty
  /\ \E s \in {"true", "false"} : env = Env(s, TRUE)
  /\ \E exp \in [Users -> {1, 2}] : tokens = [u \in Users |-> Connected(u, exp[u])]
  /\ grant = [u \in Users |-> 1]

\* The steps of a sweep task.
SweepSteps(t) ==
  \/ CheckRateLimitTxn(t)
  \/ CheckRateLimitCatch(t)
  \/ VendorRefresh(t)
  \/ VendorRefreshFails(t)
  \/ SaveUserTokens(t)
  \/ SaveUserTokensFails(t)
  \/ \E batch \in Batches : VendorEgvs(t, batch)
  \/ VendorEgvsError(t, 401, FALSE)
  \/ VendorEgvsThrows(t)
  \/ StoreCommit(t)
  \/ StoreCommitFails(t)

NextSweep ==
  \/ SweepStart
  \/ SweepStartFails
  \/ SweepFinish
  \/ \E t \in Users : SweepSteps(t)

SpecSweep == InitSweep /\ [][NextSweep]_vars

\* The refresh decision alone: two users whose access tokens have expired,
\* expire in exactly 30 minutes or expire in an hour; fetches and the sweep.
InitFresh ==
  /\ Empty
  /\ env = Env("true", TRUE)
  /\ \E exp \in [Users -> 0..2] : tokens = [u \in Users |-> Connected(u, exp[u])]
  /\ grant = [u \in Users |-> 1]

FreshSteps(t) ==
  \/ CheckRateLimitTxn(t)
  \/ CheckRateLimitCatch(t)
  \/ GetUserTokens(t)
  \/ VendorRefresh(t)
  \/ VendorRefreshFails(t)
  \/ SaveUserTokens(t)
  \/ SaveUserTokensFails(t)
  \/ VendorEgvs(t, << >>)

NextFresh ==
  \/ \E t \in Slots, u \in Users : FetchCall(t, u, NoDates)
  \/ SweepStart
  \/ SweepFinish
  \/ \E t \in Tasks : FreshSteps(t)

SpecFresh == InitFresh /\ [][NextFresh]_vars

\* The date arguments of the validation cases: unparseable, both bounds
\* before the floor with start = end, end before the floor, start = end,
\* start after end, more than 365 days, a future start, a valid hour, none.
DateRequests ==
  {NoDates,
   [startDate |-> "not-a-date", endDate |-> "2024-01-01T00:00:00Z"],
   [startDate |-> "2019-12-31T23:30:00Z", endDate |-> "2019-12-31T23:30:00Z"],
   [startDate |-> "2023-12-31T23:00:00Z", endDate |-> "2019-12-31T23:30:00Z"],
   [startDate |-> "2023-12-31T23:30:00Z", endDate |-> "2023-12-31T23:30:00"],
   [startDate |-> "2024-01-01T00:00:00Z", endDate |-> "2023-12-31T23:00:00Z"],
   [startDate |-> "2022-12-31T00:00:00Z", endDate |-> "2024-01-01T00:00:00Z"],
   [startDate |-> "2024-01-03T00:00:00Z", endDate |-> "2024-01-04T00:00:00Z"],
   [startDate |-> "2023-12-31T23:00:00Z", endDate |-> "2024-01-01T00:00:00Z"]}

\* Fetches alone, with every kind of date argument, by a connected user and
\* by one who is not.
DateSteps(t) ==
  \/ GetUserTokens(t)
  \/ CheckRateLimitTxn(t)
  \/ CheckRateLimitCatch(t)
  \/ VendorRefresh(t)
  \/ VendorRefreshFails(t)
  \/ SaveUserTokens(t)
  \/ SaveUserTokensFails(t)
  \/ \E range \in Ranges : VendorDataRange(t, range)
  \/ VendorEgvs(t, << >>)

NextDates ==
  \/ \E t \in Slots, u \in Users, req \in DateRequests : FetchCall(t, u, req)
  \/ \E t \in Slots : DateSteps(t)

\* One user connected earlier; the access token expires at tick 1 or 2.
InitSync ==
  /\ Empty
  /\ \E s \in {"true", "false"} : env = Env(s, TRUE)
  /\ \E exp \in {1, 2} : tokens = [u \in {"u1"} |-> Connected(u, exp)]
  /\ grant = [u \in Users |-> IF u = "u1" THEN 1 ELSE 0]

\* The lists the vendor serves in the specifications of the whole service.
SyncBatches == {<< >>, <<Reading("2024-01-01T00:00:00Z", 100, "flat")>>}

\* The steps of an interactive invocation or a sweep task.
SyncSteps(t) ==
  \/ CheckRateLimitTxn(t)
  \/ CheckRateLimitCatch(t)
  \/ GetUserTokens(t)
  \/ GetUserTokensFails(t)
  \/ VendorRefresh(t)
  \/ VendorRefreshFails(t)
  \/ SaveUserTokens(t)
  \/ SaveUserTokensFails(t)
  \/ \E range \in Ranges : VendorDataRange(t, range)
  \/ \E batch \in SyncBatches : VendorEgvs(t, batch)
  \/ VendorEgvsError(t, 401, FALSE)
  \/ VendorEgvsThrows(t)
  \/ StoreCommit(t)
  \/ StoreCommitFails(t)
  \/ DeleteUserTokens(t)
  \/ DeleteUserTokensFails(t)

\* The entry points callers reach once connected, and the sweep.
NextSync ==
  \/ \E t \in Slots, u \in Users : FetchCall(t, u, NoDates)
  \/ \E t \in Slots, u \in Users : RefreshCall(t, u)
  \/ \E t \in Slots, u \in Users : TestCall(t, u)
  \/ \E t \in Slots, u \in Users : DisconnectCall(t, u)
  \/ \E t \in Slots : CallUnauthenticated(t)
  \/ SweepStart
  \/ SweepStartFails
  \/ SweepFinish
  \/ \E t \in Tasks : SyncSteps(t)

SpecSync == InitSync /\ [][NextSync]_vars

SpecDates == InitSync /\ [][NextDates]_vars

\* Fetches and one sweep of two connected users whose vendor always answers,
\* at one instant: the ledger fills up.
DeniedSteps(t) ==
  \/ GetUserTokens(t)
  \/ CheckRateLimitTxn(t)
  \/ VendorRefresh(t)
  \/ SaveUserTokens(t)
  \/ VendorDataRange(t, None)
  \/ \E batch \in SyncBatches : VendorEgvs(t, batch)
  \/ StoreCommit(t)

NextDenied ==
  \/ \E t \in Slots, u \in Users : FetchCall(t, u, NoDates)
  \/ SweepStart
  \/ SweepFinish
  \/ \E t \in Tasks : DeniedSteps(t)

SpecDenied == InitSweep /\ [][NextDenied]_vars

\* dexcomRefreshToken alone, as the clock advances: the vendor accepts or
\* refuses the grant and the write succeeds or fails.
RefreshSteps(t) ==
  \/ GetUserTokens(t)
  \/ VendorRefresh(t)
  \/ \E status \in {400, 500} : VendorRefreshError(t, status)
  \/ SaveUserTokens(t)
  \/ SaveUserTokensFails(t)

NextRefresh ==
  \/ Tick
  \/ \E t \in Slots : RefreshCall(t, "u1")
  \/ \E t \in Slots : RefreshSteps(t)

SpecRefresh == InitSync /\ [][NextRefresh]_vars

\* Two connected users, each served by every entry point and by the sweep,
\* with a vendor and a store that do not fail.
PartitionSteps(t) ==
  \/ GetUserTokens(t)
  \/ CheckRateLimitTxn(t)
  \/ VendorRefresh(t)
  \/ SaveUserTokens(t)
  \/ VendorDataRange(t, None)
  \/ VendorEgvs(t, <<Reading("2024-01-01T00:00:00Z", 100, "flat")>>)
  \/ StoreCommit(t)
  \/ DeleteUserTokens(t)

NextPartition ==
  \/ \E t \in Slots, u \in Users : FetchCall(t, u, NoDates)
  \/ \E t \in Slots, u \in Users : RefreshCall(t, u)
  \/ \E t \in Slots, u \in Users : DisconnectCall(t, u)
  \/ \E t \in Slots, u \in Users :
       OAuthCallback(t, [party |-> u, code |-> "code", error |-> "",
                         state |-> generateSecureState(u, 0)])
  \/ \E t \in Slots : VendorExchange(t)
  \/ SweepStart
  \/ SweepFinish
  \/ \E t \in Tasks : PartitionSteps(t)

SpecPartition == InitSweep /\ [][NextPartition]_vars

\* The authorization flow: users start it, and callbacks arrive carrying a
\* code and a well-formed state, whoever composed it.
NextFlow ==
  \/ Tick
  \/ \E t \in Slots, u \in Users : OAuthStart(t, u)
  \/ \E t \in Slots, u, v \in Users, n \in 0..MaxTime :
       OAuthCallback(t, [party |-> v, code |-> "code", error |-> "",
                         state |-> generateSecureState(u, n)])
  \/ \E t \in Slots : OAuthSteps(t)

SpecFlow == InitOAuth /\ [][NextFlow]_vars

\* The statuses of DEXCOM_ERROR_CODES the vendor answers with.
Statuses == {400, 401, 403, 404, 409, 429, 500, 502, 503, 504}

\* Interactive fetches and refreshes against a vendor that answers with
\* error statuses.
VendorSteps(t) ==
  \/ GetUserTokens(t)
  \/ CheckRateLimitTxn(t)
  \/ VendorRefresh(t)
  \/ \E status \in Statuses : VendorRefreshError(t, status)
  \/ SaveUserTokens(t)
  \/ \E range \in Ranges : VendorDataRange(t, range)
  \/ VendorEgvs(t, << >>)
  \/ \E status \in Statuses, mentionsDate \in BOOLEAN :
       VendorEgvsError(t, status, mentionsDate)

NextVendor ==
  \/ \E t \in Slots : FetchCall(t, "u1", NoDates)
  \/ \E t \in Slots : RefreshCall(t, "u1")
  \/ \E t \in Slots : VendorSteps(t)

SpecVendor == InitSync /\ [][NextVendor]_vars

\* The whole service: the entry points, the sweep and the OAuth callback.
NextLife ==
  \/ NextSync
  \/ \E t \in Slots, u \in Users : OAuthCallback(t, [party |-> u, code |-> "code", error |-> "",
                                                     state |-> generateSecureState(u, 0)])
  \/ \E t \in Slots : VendorExchange(t)
  \/ \E t \in Slots : VendorExchangeError(t)
  \/ \E t \in Slots : VendorExchangeThrows(t)

SpecLife == InitSync /\ [][NextLife]_vars
\* ================================================================ claims
\* ------------------------------------------------- rate limiter (SpecRL)
\* Entries of `data` with a timestamp in the trailing window ending at w.
InWindow(data, w) ==
  Cardinality({i \in DOMAIN data :
                 data[i] > w - RATE_LIMIT_WINDOW_MS /\ data[i] <= w})

\* Entries of `data` newer than `start`.
NewerThan(data, start) == Cardinality({i \in DOMAIN data : data[i] > start})

\* Task t's transaction returns in this step without having failed.
TxnReturns(t) ==
  /\ task[t].pc = "rl_txn"
  /\ task'[t].pc # "rl_txn"
  /\ ~calls'[Len(calls')].failed

\* Task t's transaction rejects in this step.
TxnRejects(t) ==
  /\ task[t].pc = "rl_txn"
  /\ task'[t].pc # "rl_txn"
  /\ calls'[Len(calls')].failed

C1_WindowBound ==
  \A w \in 0..MaxTime : InWindow(ledger, w) <= RATE_LIMIT_MAX_CALLS

C1_AdmittedOnlyWithRoom ==
  \A t \in Tasks :
    (TxnReturns(t) /\ task'[t].rl.allowed)
      => NewerThan(ledger, task[t].now - RATE_LIMIT_WINDOW_MS) < RATE_LIMIT_MAX_CALLS

\* C1: a call whose transaction succeeds is admitted only if, when the
\* transaction reads the ledger, fewer than the ceiling entries are newer than
\* (now - window); and no trailing window ever holds more than the ceiling
\* ledger entries.
C1_LedgerInvariant == [](C1_WindowBound) /\ [][C1_AdmittedOnlyWithRoom]_vars

\* C1's case: the ledger is full and a call has been turned away.
C1_Witness ==
  /\ Len(ledger) = RATE_LIMIT_MAX_CALLS
  /\ \E i \in DOMAIN calls : ~calls[i].allowed /\ ~calls[i].failed

\* Call i reserved a ledger entry.
Reserved(i) == calls[i].allowed /\ ~calls[i].failed

\* Up to call i, the calls that wrote the ledger (and call i itself) came at
\* non-decreasing instants.
InOrderUpTo(i) ==
  \A j, k \in 1..i :
    (j < k /\ Reserved(j) /\ (Reserved(k) \/ k = i)) => calls[j].now <= calls[k].now

\* Reservations made before call i that are still inside call i's window.
FreshBefore(i) ==
  Cardinality({j \in 1..(i - 1) :
                 Reserved(j) /\ calls[j].now > calls[i].now - RATE_LIMIT_WINDOW_MS})

\* C2: for calls made at non-decreasing instants, a call is admitted exactly
\* when fewer than the ceiling earlier reservations are still inside its
\* window: the first N in a window are admitted, the next is denied, and a
\* call made after one of them has aged out is admitted again.
C2_RollingWindow ==
  \A i \in DOMAIN calls :
    (~calls[i].failed /\ InOrderUpTo(i))
      => (calls[i].allowed <=> FreshBefore(i) < RATE_LIMIT_MAX_CALLS)

\* C2's case: a full window, a denial, then an admission after the roll.
C2_Witness ==
  \E i, k \in DOMAIN calls :
    /\ i < k
    /\ InOrderUpTo(k)
    /\ \A j \in 1..k : ~calls[j].failed
    /\ ~calls[i].allowed
    /\ Cardinality({j \in 1..(i - 1) : Reserved(j)}) = RATE_LIMIT_MAX_CALLS
    /\ calls[k].allowed

\* The calls whose transaction succeeded.
Succeeded == {i \in DOMAIN calls : ~calls[i].failed}

\* No reservation has aged out of any caller's window.
NoAging ==
  \A i, j \in Succeeded : calls[j].now > calls[i].now - RATE_LIMIT_WINDOW_MS

\* C3: while nothing ages out, of k calls whose transaction succeeded, in any
\* interleaving, exactly min(k, ceiling) are admitted and the ledger holds
\* exactly one entry for each of them.
C3_AtomicReservation ==
  NoAging =>
    /\ Cardinality({i \in Succeeded : calls[i].allowed})
         = Min(Cardinality(Succeeded), RATE_LIMIT_MAX_CALLS)
    /\ Len(ledger) = Cardinality({i \in Succeeded : calls[i].allowed})

\* C3's case: overlapping calls that committed in the opposite order of their
\* start, with more callers than room.
C3_Witness ==
  /\ NoAging
  /\ Cardinality(Succeeded) > RATE_LIMIT_MAX_CALLS
  /\ \E i, j \in Succeeded : i < j /\ calls[i].now > calls[j].now

\* C4: when the ledger transaction fails, checkRateLimit reports allowed =
\* true with remaining = ceiling, and the ledger is left as it was.
C4_FailOpen ==
  [][\A t \in Tasks :
       TxnRejects(t) =>
         /\ task'[t].rl.allowed
         /\ task'[t].rl.remaining = RATE_LIMIT_MAX_CALLS
         /\ ledger' = ledger]_vars

\* C4's case: a failed transaction while the ledger is full.
C4_Witness ==
  /\ Len(ledger) = RATE_LIMIT_MAX_CALLS
  /\ \E t \in Tasks :
       /\ task[t].pc = "done"
       /\ calls # << >>
       /\ calls[Len(calls)].failed
       /\ task[t].rl = CatchResult(calls[Len(calls)].now)

\* ----------------------------------------------- vendor requests (SpecSync)
RECURSIVE SumOver(_, _)
SumOver(f, S) ==
  IF S = {} THEN 0
  ELSE LET x == CHOOSE x \in S : TRUE IN f[x] + SumOver(f, S \ {x})

\* Vendor requests served in the trailing window ending at tick w.
RequestsInWindow(w) ==
  SumOver(requests, {i \in DOMAIN requests : i > w - RATE_LIMIT_WINDOW_MS /\ i <= w})

\* C5: across all users and entry points (fetch, sweep, manual refresh, raw-data
\* test), the vendor requests issued within any trailing window never exceed
\* the ceiling.
C5_VendorCeiling ==
  \A w \in 0..MaxTime : RequestsInWindow(w) <= RATE_LIMIT_MAX_CALLS

\* ---------------------------------------------------- ingestion (SpecStore)
\* The stored documents of user u for instant ms.
DocsOf(u, ms) ==
  {d \in DOMAIN readings : readings[d].userId = u /\ readings[d].systemTime = ms}

\* C6: the store holds at most one record per (userId, systemTime), and every
\* (userId, systemTime) ever ingested has a record that carries the value and
\* trend of the latest write for it.
C6_IdempotentIngestion ==
  /\ \A d \in DOMAIN readings :
       Cardinality(DocsOf(readings[d].userId, readings[d].systemTime)) = 1
  /\ \A k \in DOMAIN written :
       \E d \in DocsOf(k[1], k[2]) :
         /\ readings[d].value = written[k].value
         /\ readings[d].trend = written[k].trend

\* C6's case: two callers ingested the same instant of one user, spelled
\* differently and with different value and trend; one record holds the later.
C6_Witness ==
  \E u \in Users :
    /\ task["t1"].pc = "done" /\ task["t1"].out = "ok" /\ task["t1"].user = u
    /\ task["t1"].data = <<Reading("2024-01-01T00:00:00Z", 100, "flat")>>
    /\ task["t2"].pc = "done" /\ task["t2"].out = "ok" /\ task["t2"].user = u
    /\ task["t2"].data = <<Reading("2024-01-01T00:00:00", 120, "singleUp")>>
    /\ Cardinality({d \in DOMAIN readings : readings[d].userId = u}) = 1
    /\ \E d \in DocsOf(u, 0) : readings[d].value = 100 /\ readings[d].trend = "flat"

\* ------------------------------------------------ token refresh (SpecSync)
\* No write of u's record is pending and none was lost.
Settled(u) ==
  \A t \in Tasks :
    task[t].user = u => task[t].pc # "save" /\ task[t].fault # "save"

OAuthSave(u) ==
  \E t \in Slots :
    /\ task[t].kind = "oauth" /\ task[t].user = u
    /\ task[t].pc = "save" /\ task'[t].pc = "done"

\* C8: a record for u comes into existence only through the save of a
\* successful OAuth exchange for u; in particular no refresh re-creates a
\* record that disconnect has deleted.
C8_Lifecycle ==
  [][\A u \in Users :
       (u \notin DOMAIN tokens /\ u \in DOMAIN tokens') => OAuthSave(u)]_vars

\* ------------------------------------------------------- sweep (SpecSweep)
\* Every reading of `data` is in the store under user u.
Persisted(u, data) ==
  LET w == Latest(EmptyFn, u, data) IN
  \A k \in DOMAIN w :
    \E d \in DocsOf(u, k[2]) :
      readings[d].value = w[k].value /\ readings[d].trend = w[k].trend

\* User u's own steps succeeded: admitted, and nothing failed in its task.
OwnStepsSucceeded(u) == task[u].rl.allowed /\ task[u].fault = ""

\* C9: when a sweep run ends, every task of the run has settled by completing,
\* being skipped or having its failure caught, and every user whose own steps
\* succeeded has completed with the fetched readings persisted, whatever
\* happened to the other users.
C9_SweepIsolation ==
  sweep.pc = "done" =>
    \A u \in sweep.snapshot :
      /\ task[u].pc = "done"
      /\ task[u].out \in {"ok", "skipped", "caught", "fetch-failed"}
      /\ OwnStepsSucceeded(u) => task[u].out = "ok" /\ Persisted(u, task[u].data)

\* C9's case: one user's vendor fetch threw, the other user's readings are stored.
C9_Witness ==
  /\ sweep.pc = "done"
  /\ \E u, v \in sweep.snapshot :
       /\ u # v
       /\ task[u].fault = "egvs" /\ task[u].out = "caught"
       /\ OwnStepsSucceeded(v)
       /\ Len(task[v].data) = 2
       /\ DOMAIN readings # {}
       /\ Persisted(v, task[v].data)

\* ---------------------------------------------- OAuth callback (SpecOAuth)
\* The redirects the callback may end with.
Redirects ==
  {"success=true", "error=configuration_error", "error=missing_parameters",
   "error=invalid_state", "error=token_exchange_failed", "error=internal_error"}
  \cup {"error=" \o encodeURIComponent(q.error) : q \in {x \in Queries : x.error # ""}}

\* C10: every invocation of the callback that has ended, whatever the query
\* and whatever failed at the vendor or in storage, ended in a redirect
\* carrying success=true or one of the error codes; nothing is raised.
C10_AlwaysRedirects ==
  \A t \in Slots :
    (task[t].kind = "oauth" /\ task[t].pc = "done") => task[t].out \in Redirects

\* C10's case: one callback whose token request threw, one whose save failed.
C10_Witness ==
  \E a, b \in Slots :
    /\ task[a].kind = "oauth" /\ task[a].pc = "done"
    /\ task[a].fault = "exchange" /\ task[a].out = "error=internal_error"
    /\ task[b].kind = "oauth" /\ task[b].pc = "done"
    /\ task[b].fault = "save" /\ task[b].out = "success=true"

\* C11: when the vendor exchange succeeded and the save of the record fails,
\* the callback redirects with success=true and the token store is left as it
\* was.
C11_PersistBestEffort ==
  [][\A t \in Slots :
       (/\ task[t].kind = "oauth" /\ task[t].pc = "save"
        /\ task'[t].pc = "done" /\ task'[t].fault = "save")
         => task'[t].out = "success=true" /\ tokens' = tokens]_vars

\* C11's case: a callback reported success for a user who has no record.
C11_Witness ==
  \E t \in Slots :
    /\ task[t].kind = "oauth" /\ task[t].pc = "done"
    /\ task[t].fault = "save" /\ task[t].out = "success=true"
    /\ task[t].user \notin DOMAIN tokens
    /\ grant[task[t].user] = 1

\* The callback of task t has accepted the state parameter of its request.
Redeemed(t) == task[t].kind = "oauth" /\ task[t].pc \in {"exchange", "save"}

\* C12: a state token is accepted by the callback only if its userId is the
\* identity of the party redeeming it and it is at most one hour old.
C12_StateBoundToCaller ==
  \A t \in Slots :
    Redeemed(t) =>
      /\ task[t].req.state.userId = task[t].req.party
      /\ task[t].now - task[t].req.state.timestamp[1] <= STATE_MAX_AGE_MS

\* ------------------------------------------------- state token (SpecState)
\* Task t has validated the token it was issued.
Validated(t) == task[t].kind = "state" /\ task[t].pc = "done"

\* The age of task t's token when it was validated.
AgeAtValidation(t) == task[t].now - task[t].req.state.timestamp[1]

\* C13: validateState(generateSecureState(u), v) is valid when v = u and the
\* token is at most one hour old (exactly one hour included), fails as
\* expired when v = u and it is older, and fails as a user mismatch when
\* v # u.
C13_RoundTrip ==
  \A t \in Slots :
    Validated(t) =>
      IF task[t].user # task[t].req.state.userId
        THEN task[t].out = "User ID mismatch"
      ELSE IF AgeAtValidation(t) <= STATE_MAX_AGE_MS
        THEN task[t].out = "valid"
      ELSE task[t].out = "State parameter expired"

\* C13's case: a token validated at exactly one hour, one validated later,
\* both for the user they were issued to.
C13_Witness ==
  /\ Validated("t1") /\ Validated("t2")
  /\ task["t1"].user = task["t1"].req.state.userId
  /\ task["t2"].user = task["t2"].req.state.userId
  /\ AgeAtValidation("t1") = STATE_MAX_AGE_MS /\ task["t1"].out = "valid"
  /\ AgeAtValidation("t2") > STATE_MAX_AGE_MS
  /\ task["t2"].out = "State parameter expired"

\* --------------------------------------------- refresh boundary (SpecFresh)
\* Task t is a fetch or a sweep task.
Syncing(t) == task[t].kind \in {"fetch", "sweep"}

\* In this step task t, admitted by the rate limiter, decides whether to refresh.
RefreshDecision(t) ==
  /\ Syncing(t)
  /\ task[t].pc = "rl_txn" /\ task'[t].pc # "rl_txn"
  /\ task'[t].rl.allowed

\* C14: a fetch or sweep task goes to the vendor for a refresh exactly when
\* the record it holds expires within 30 minutes (exactly 30 minutes and
\* already expired included); a token request is made only by that decision,
\* the record is written only after a token request, and no other step of
\* the task writes the token store.
C14_RefreshBoundary ==
  [][\A t \in Tasks :
       /\ RefreshDecision(t) =>
            (task'[t].pc = "refresh"
               <=> task[t].tok[1].expiresAt - clock <= TOKEN_EXPIRY_BUFFER_MS)
       /\ (Syncing(t) /\ task[t].pc # "refresh" /\ task'[t].pc = "refresh")
            => RefreshDecision(t)
       /\ (Syncing(t) /\ task[t].pc # "save" /\ task'[t].pc = "save")
            => task[t].pc = "refresh"
       /\ (Syncing(t) /\ task[t].pc # "save" /\ task'[t] # task[t])
            => tokens' = tokens]_vars

\* C14's case: a fetch refreshing a token that expires in exactly 30 minutes
\* while the sweep uses another user's record, which expires later, unchanged.
C14_Witness ==
  \E a \in Slots, b \in Users :
    /\ task[a].kind = "fetch" /\ task[a].pc = "refresh"
    /\ task[a].tok[1].expiresAt - clock = TOKEN_EXPIRY_BUFFER_MS
    /\ task[b].kind = "sweep" /\ task[b].pc = "egvs"
    /\ task[b].tok[1] = tokens[b]
    /\ tokens[b].expiresAt - clock > TOKEN_EXPIRY_BUFFER_MS
    /\ grant[b] = 1

\* ------------------------------------------------ fetch dates (SpecDates)
\* The errors of the five ordered checks.
OrderedDateErrors ==
  <<"Invalid date format provided", "Start date cannot be before 2020",
    "End date cannot be before 2020", "Start date must be before end date",
    "Date range cannot exceed 1 year">>

\* Which of the five checks the dates p fail, as a sequence of booleans.
Failing(p) ==
  <<p.start = NaN \/ p.end = NaN,
    p.start < minAllowedDate,
    p.end < minAllowedDate,
    p.start >= p.end,
    p.end - p.start > maxRangeMs>>

\* In this step the fetch of task t gets through its date validation or is
\* stopped by it.
Validates(t) ==
  /\ task[t].kind = "fetch" /\ task[t].pc \notin {"done", "egvs"}
  /\ \/ task'[t].pc = "egvs"
     \/ /\ task'[t].pc = "done"
        /\ task'[t].out \in {OrderedDateErrors[i] : i \in 1..5}
                               \cup {"Start date cannot be in the future"}

\* C15: the date checks of a fetch apply in a fixed order (unparseable, start
\* before the floor, end before the floor, start >= end, more than 365 days)
\* and the first one that fails gives the error.
C15_ValidationOrder ==
  [][\A t \in Slots :
       Validates(t) =>
         LET f == Failing(Parsed(task[t].req, clock)) IN
         \A i \in 1..5 :
           (f[i] /\ \A j \in 1..(i - 1) : ~f[j])
             => task'[t].pc = "done" /\ task'[t].out = OrderedDateErrors[i]]_vars

\* C15's case: start before the floor and start >= end: the floor error.
C15_Witness ==
  \E t \in Slots :
    /\ task[t].kind = "fetch" /\ task[t].pc = "done"
    /\ LET f == Failing(Parsed(task[t].req, clock)) IN ~f[1] /\ f[2] /\ f[4]
    /\ task[t].out = "Start date cannot be before 2020"

\* The errors of a fetch that count as validation or precondition failures.
FailFastErrors ==
  {"not-found", "resource-exhausted", "Start date cannot be in the future"}
  \cup {OrderedDateErrors[i] : i \in 1..5}

\* C16: the step in which a fetch fails a validation or precondition check
\* leaves the ledger, the token store and the readings unchanged and sends
\* no vendor request (as it must, if nothing is changed or sent between the
\* call and the failure).
C16_FailFast ==
  [][\A t \in Slots :
       (/\ task[t].kind = "fetch" /\ task[t].pc # "done"
        /\ task'[t].pc = "done" /\ task'[t].out \in FailFastErrors)
         => /\ ledger' = ledger
            /\ tokens' = tokens
            /\ readings' = readings
            /\ requests' = requests]_vars

\* ------------------------------------------- vendor failures (SpecVendor)
\* The statuses the vendor's error table marks as not retryable.
NonRetryable == {400, 401, 403, 404, 409}

\* C17: a fetch or a token refresh of an interactive caller that got a
\* non-retryable status from the vendor fails with failed-precondition, and
\* one that got a 5xx status fails with internal.
C17_FailureClassification ==
  \A t \in Slots :
    (task[t].kind \in {"fetch", "refresh"} /\ task[t].pc = "done") =>
      /\ task[t].status \in NonRetryable => task[t].out = "failed-precondition"
      /\ task[t].status >= 500 => task[t].out = "internal"

\* ------------------------------------------------ sandbox clamp (SpecClamp)
\* Task t has clamped a window against an available range in sandbox mode.
Clamped(t) ==
  /\ task[t].kind = "adjust" /\ task[t].pc = "done"
  /\ task[t].args[1].sandbox /\ task[t].args[1].dataRange # None

\* C18: for an available range [D1, D2], a window entirely outside it becomes
\* [D2 - min(12h, D2 - D1), D2], a window partly outside becomes its
\* intersection with [D1, D2], both with adjusted = true, and a window inside
\* is returned unchanged with adjusted = false.
C18_SandboxClamp ==
  \A t \in Slots :
    Clamped(t) =>
      LET a == task[t].args[1]
          D1 == a.dataRange[1].start
          D2 == a.dataRange[1].end
          r == task[t].ret[1] IN
      IF a.end < D1 \/ a.start > D2
        THEN /\ r.startDate = D2 - Min(SANDBOX_WINDOW_MS, D2 - D1)
             /\ r.endDate = D2 /\ r.adjusted
      ELSE IF a.start >= D1 /\ a.end <= D2
        THEN r.startDate = a.start /\ r.endDate = a.end /\ ~r.adjusted
      ELSE /\ r.startDate = Max(a.start, D1) /\ r.endDate = Min(a.end, D2)
           /\ r.adjusted

\* C18's case: a window that lies before an available range shorter than 12
\* hours is moved onto the whole of that range.
C18_Witness ==
  /\ Clamped("t1")
  /\ task["t1"].args[1] = [start |-> 0, end |-> 12, sandbox |-> TRUE,
                           dataRange |-> Some([start |-> 36, end |-> 48])]
  /\ task["t1"].ret[1] = [startDate |-> 36, endDate |-> 48, adjusted |-> TRUE]

\* ------------------------------------------- environment flag (SpecDates)
\* Task t waits for an answer of the vendor.
AtVendor(t) == task[t].pc \in {"refresh", "range", "egvs"}

\* C19: with DEXCOM_USE_SANDBOX set to "true" every vendor call goes to the
\* sandbox base URL and the data range is queried; with it set to "false"
\* every vendor call goes to the production base URL and no data range is
\* queried.
C19_EnvironmentSelection ==
  \A t \in Slots :
    AtVendor(t) =>
      /\ env.DEXCOM_USE_SANDBOX = "true" =>
            getDexcomBaseUrl(useSandbox) = SANDBOX_BASE_URL
      /\ env.DEXCOM_USE_SANDBOX = "false" =>
            /\ getDexcomBaseUrl(useSandbox) = PRODUCTION_BASE_URL
            /\ task[t].pc # "range"

\* --------------------------------------------------- denied calls (SpecRL)
\* The transaction of task t commits in this step and reports no capacity.
TxnDenies(t) ==
  /\ task[t].pc = "rl_txn" /\ task'[t].pc # "rl_txn"
  /\ Len(calls') = Len(calls) + 1
  /\ ~calls'[Len(calls')].failed
  /\ ~task'[t].rl.allowed

\* C20: a denied checkRateLimit call returns allowed = false and leaves the
\* ledger exactly as it was: no timestamp appended, no aged entry pruned.
C20_DeniedLeavesLedger ==
  [][\A t \in Tasks : TxnDenies(t) => ledger' = ledger]_vars

\* C20's case: the last call was denied at an instant later than every entry
\* of the ledger, which still holds entries of different ages.
C20_Witness ==
  /\ calls # << >>
  /\ LET last == calls[Len(calls)] IN
       /\ ~last.allowed /\ ~last.failed
       /\ \A k \in DOMAIN ledger : ledger[k] < last.now
       /\ \E j, k \in DOMAIN ledger : ledger[j] < ledger[k]

\* -------------------------------------------------- ledger order (SpecRL)
\* C21: the ledger's calls are ordered by timestamp, non-decreasing from the
\* first entry to the last, in every reachable state.
C21_LedgerOrdered ==
  \A j, k \in DOMAIN ledger : j < k => ledger[j] <= ledger[k]

\* ------------------------------------------ reason order (SpecPresented)
\* The failure reasons of validateState, highest priority first.
ReasonOrder ==
  <<"Invalid state format", "Missing required state fields",
    "User ID mismatch", "State parameter expired">>

\* The defects of the state task t presented, as positions of ReasonOrder.
Defects(t) ==
  LET s == task[t].req.state IN
  {d \in DOMAIN ReasonOrder :
     \/ d = 1 /\ s.fmt # "object"
     \/ d = 2 /\ (s.userId = "" \/ s.timestamp = None \/ s.nonce = "")
     \/ d = 3 /\ s.userId # task[t].user
     \/ d = 4 /\ s.timestamp # None /\ task[t].now - s.timestamp[1] > STATE_MAX_AGE_MS}

\* Task t has validated a state string it presented.
ValidatedPresented(t) == task[t].kind = "presented" /\ task[t].pc = "done"

\* C22: validateState reports the reason of the highest-priority defect:
\* invalid format, then missing fields, then user mismatch, then expired; it
\* reports valid exactly when there is no defect.
C22_ReasonPriority ==
  \A t \in Slots :
    ValidatedPresented(t) =>
      IF Defects(t) = {} THEN task[t].out = "valid"
      ELSE \E d \in Defects(t) :
             /\ \A e \in Defects(t) : d <= e
             /\ task[t].out = ReasonOrder[d]

\* C22's case: a complete state of another user, older than one hour, is
\* refused as a user mismatch.
C22_Witness ==
  \E t \in Slots :
    /\ ValidatedPresented(t)
    /\ Defects(t) = {3, 4}
    /\ task[t].out = "User ID mismatch"

\* --------------------------------------------- vendor error (SpecOAuth)
\* C23: whenever the query of the callback carries an `error` parameter the
\* redirect surfaces that error, whatever else holds, and the later checks
\* and the token exchange are not reached.
C23_ErrorSurfaced ==
  \A t \in Slots :
    (task[t].kind = "oauth" /\ task[t].req.error # "") =>
      /\ task[t].pc = "done"
      /\ task[t].out = "error=" \o encodeURIComponent(task[t].req.error)

\* -------------------------------------------- failure exits (SpecOAuth)
\* In this step the callback of task t redirects with an error.
FailureExit(t) ==
  /\ task'[t] # task[t]
  /\ task'[t].kind = "oauth" /\ task'[t].pc = "done"
  /\ task'[t].out # "success=true"

\* In this step the callback of task t, having validated the state of its
\* request and received the vendor's tokens, writes the record.
WritesAfterExchange(t) ==
  /\ task[t].kind = "oauth" /\ task[t].pc = "save"
  /\ validateState(task[t].req.state, task[t].req.state.userId, task[t].now).valid
  /\ task[t].tok # None
  /\ tokens' = Put(tokens, task[t].user, task[t].tok[1])

\* C24: a callback that exits with an error leaves the token store as it was
\* and, unless it exits at the exchange, has made no vendor request; a record
\* is written only by a callback that validated the state and whose code the
\* vendor exchanged.
C24_FailureExitsWriteNothing ==
  [][/\ \A t \in Slots :
          FailureExit(t) =>
            /\ tokens' = tokens
            /\ task[t].pc # "exchange" => requests' = requests
     /\ tokens' # tokens => \E t \in Slots : WritesAfterExchange(t)]_vars

\* C24's case: one callback failed at the exchange and left no record, while
\* another one wrote the record of its user.
C24_Witness ==
  \E a, b \in Slots :
    /\ task[a].kind = "oauth" /\ task[a].pc = "done"
    /\ task[a].out = "error=token_exchange_failed"
    /\ task[a].user \notin DOMAIN tokens
    /\ task[b].kind = "oauth" /\ task[b].pc = "done"
    /\ task[b].out = "success=true" /\ task[b].fault = ""
    /\ task[b].user \in DOMAIN tokens

\* ------------------------------------------------ denials (SpecDenied)
\* Task t waits for the vendor or for a write of what the vendor returned.
Working(t) == task[t].pc \in {"refresh", "save", "range", "egvs", "store"}

\* In this step the rate limiter turns the fetch or sweep task t away.
Denied(t) ==
  /\ Syncing(t)
  /\ task[t].pc = "rl_txn" /\ task'[t].pc # "rl_txn"
  /\ ~task'[t].rl.allowed

\* C25: a fetch or sweep task turns to the vendor only once the rate limiter
\* has admitted it; when it is denied the invocation ends there (the fetch
\* with resource-exhausted, the sweep task as skipped) with no token request,
\* no readings request and no write, and the other tasks go on.
C25_DenialStopsUser ==
  [][\A t \in Tasks :
       /\ (Syncing(t) /\ ~Working(t) /\ Working(t)')
            => (task[t].pc = "rl_txn" /\ task'[t].rl.allowed)
       /\ Denied(t) =>
            /\ task'[t].pc = "done"
            /\ task'[t].out = IF task[t].kind = "fetch" THEN "resource-exhausted"
                                                        ELSE "skipped"
            /\ task'[t].data = << >>
            /\ grant' = grant /\ requests' = requests
            /\ tokens' = tokens /\ readings' = readings
            /\ \A x \in Tasks \ {t} : task'[x] = task[x]
            /\ sweep' = sweep]_vars

\* C25's case: a sweep skipped one user and stored the readings of the other,
\* and a fetch was refused.
C25_Witness ==
  /\ sweep.pc = "done"
  /\ \E a, b \in sweep.snapshot :
       /\ a # b
       /\ task[a].out = "ok" /\ Persisted(a, task[a].data) /\ task[a].data # << >>
       /\ task[b].out = "skipped" /\ ~task[b].rl.allowed
       /\ \A d \in DOMAIN readings : readings[d].userId # b
  /\ \E t \in Slots : task[t].kind = "fetch" /\ task[t].out = "resource-exhausted"

\* ------------------------------------------ refresh writes (SpecRefresh)
\* Task t is inside refreshAccessToken.
Refreshing(t) == task[t].kind = "refresh" /\ task[t].pc \in {"refresh", "save"}

\* C26: refreshAccessToken either fails and leaves the stored record as it
\* was (the vendor refused the grant, or the write failed), or replaces the
\* stored record by a complete new one: a new access and refresh token,
\* expiresAt = now + the reported lifetime, refreshTokenCreatedAt = now.
C26_RefreshAllOrNothing ==
  [][\A t \in Slots :
       (Refreshing(t) /\ task'[t] # task[t]) =>
         LET u == task[t].user IN
         \/ /\ task[t].pc = "refresh" /\ task'[t].pc = "save"
            /\ tokens' = tokens
            /\ task'[t].tok[1] =
                 [userId |-> u, accessToken |-> grant'[u], refreshToken |-> grant'[u],
                  expiresAt |-> clock + EXPIRES_IN, refreshTokenCreatedAt |-> clock]
            /\ grant'[u] # task[t].tok[1].refreshToken
         \/ /\ task'[t].pc = "done" /\ task'[t].out = "internal"
            /\ tokens' = tokens
         \/ /\ task[t].pc = "save"
            /\ task'[t].pc = "done" /\ task'[t].out = "ok"
            /\ tokens' = Put(tokens, u, task[t].tok[1])]_vars

\* C26's case: a refresh refused by the vendor left the record of an earlier
\* instant in place, and a later refresh replaced it.
C26_Witness ==
  /\ task["t1"].kind = "refresh" /\ task["t1"].pc = "done"
  /\ task["t1"].fault = "refresh" /\ task["t1"].status = 400
  /\ task["t2"].kind = "refresh" /\ task["t2"].pc = "done" /\ task["t2"].out = "ok"
  /\ "u1" \in DOMAIN tokens
  /\ tokens["u1"] = NewTokens("u1", 2, 1, 1)

\* ------------------------------------------- partitioning (SpecPartition)
\* The users on whose behalf a task moves in this step.
ActingUsers == {task'[t].user : t \in {x \in Tasks : task'[x] # task[x]}}

\* The stored readings of user v.
ReadingsOf(coll, v) ==
  [d \in {x \in DOMAIN coll : coll[x].userId = v} |-> coll[d]]

\* The credential record of user v, if any.
RecordOf(coll, v) == IF v \in DOMAIN coll THEN Some(coll[v]) ELSE None

\* C27: a step made for user u (by the callback whose state names u, a
\* refresh, a fetch, a disconnect or u's sweep task) leaves the credential
\* record and the stored readings of every other user as they were.
C27_UserPartitioning ==
  [][\A v \in Users :
       v \notin ActingUsers =>
         /\ RecordOf(tokens', v) = RecordOf(tokens, v)
         /\ ReadingsOf(readings', v) = ReadingsOf(readings, v)]_vars

\* C27's case: both users hold a reading of the same instant, one user has
\* disconnected and the other has a refreshed record.
C27_Witness ==
  /\ \A v \in Users : DOMAIN ReadingsOf(readings, v) = {DocId(v, 0)}
  /\ "u1" \notin DOMAIN tokens
  /\ "u2" \in DOMAIN tokens /\ tokens["u2"].accessToken = 2

\* --------------------------------------------- retention (SpecPartition)
\* The (userId, systemTime) keys of the stored readings.
ReadingKeys(coll) == {<<coll[d].userId, coll[d].systemTime>> : d \in DOMAIN coll}

\* In this step the disconnect of task t deletes the record of its user.
Disconnects(t) ==
  task[t].kind = "disconnect" /\ task[t].pc = "delete" /\ task'[t].pc = "done"

\* C28: no step removes a stored reading: the set of (userId, systemTime)
\* keys only grows; a disconnect removes the credential record of its user
\* and nothing else.
C28_ReadingsOnlyGrow ==
  [][/\ ReadingKeys(readings) \subseteq ReadingKeys(readings')
     /\ DOMAIN readings \subseteq DOMAIN readings'
     /\ \A t \in Slots :
          Disconnects(t) =>
            /\ tokens' = Drop(tokens, task[t].user)
            /\ readings' = readings /\ ledger' = ledger /\ grant' = grant]_vars

\* C28's case: a user with stored readings has disconnected; the record is
\* gone and the readings are still there.
C28_Witness ==
  \E t \in Slots :
    /\ task[t].kind = "disconnect" /\ task[t].pc = "done" /\ task[t].out = "ok"
    /\ task[t].user \notin DOMAIN tokens
    /\ <<task[t].user, 0>> \in ReadingKeys(readings)

\* ------------------------------------------------ flow order (SpecFlow)
\* The callback of task t has persisted the record of its user.
TokensPersisted(t) ==
  /\ task[t].kind = "oauth" /\ task[t].pc = "done"
  /\ task[t].out = "success=true" /\ task[t].fault = ""

\* dexcomOAuthStart issued the state `state` to user u.
AuthUrlIssued(u, state) ==
  \E s \in Slots :
    /\ task[s].kind = "start" /\ task[s].out = "authUrl"
    /\ task[s].user = u /\ task[s].req.state = state

\* C29: a callback persists the record of user u only after dexcomOAuthStart
\* has issued to u the very state the callback presents.
C29_FlowOrdering ==
  \A t \in Slots :
    TokensPersisted(t) => AuthUrlIssued(task[t].user, task[t].req.state)

\* ------------------------------------------------ idempotence (SpecTwice)
\* Task t has adjusted a window twice.
AdjustedTwice(t) == task[t].kind = "adjust twice" /\ task[t].pc = "done"

\* C30: adjusting the result of an adjustment returns it unchanged with
\* adjusted = false; with an available range [D1, D2] the first result lies
\* inside it, start <= end.
C30_AdjustIdempotent ==
  \A t \in Slots :
    AdjustedTwice(t) =>
      LET a == task[t].args[1]
          r == task[t].ret[1] IN
      /\ r.second = [startDate |-> r.first.startDate, endDate |-> r.first.endDate,
                     adjusted |-> FALSE]
      /\ (a.sandbox /\ a.dataRange # None) =>
            /\ a.dataRange[1].start <= r.first.startDate
            /\ r.first.startDate <= r.first.endDate
            /\ r.first.endDate <= a.dataRange[1].end

\* C30's case: a window before an available range of a single instant is
\* moved onto that instant, and moving it again changes nothing.
C30_Witness ==
  /\ AdjustedTwice("t1")
  /\ task["t1"].args[1] = [start |-> 0, end |-> 24, sandbox |-> TRUE,
                           dataRange |-> Some([start |-> 36, end |-> 36])]
  /\ task["t1"].ret[1].first = [startDate |-> 36, endDate |-> 36, adjusted |-> TRUE]
  /\ task["t1"].ret[1].second = [startDate |-> 36, endDate |-> 36, adjusted |-> FALSE]

====
